---- MODULE Spec2Model ----
(***************************************************************************)
(* A model of BrainLinkParser (src/brainlink_parser_linux.py): the frame   *)
(* extractor over the accumulation buffer, the payload walk, the extended  *)
(* field classifier, the unknown-field tracker and the two change gates.   *)
(*                                                                         *)
(* Conventions.  A byte is an integer 0..255 and a bytes object a          *)
(* sequence of bytes.  An Optional value is the empty sequence (None) or a *)
(* one-element sequence.  The temperature float v / 10.0 is kept as the    *)
(* integer v (tenths of a degree); the dictionary key f"0x{code:02X}" and  *)
(* data.hex() are kept as sequences of hexadecimal digits.  The wall       *)
(* clock is an integer number of seconds; one parse() call reads the same  *)
(* clock value for each payload it decodes.                                *)
(*                                                                         *)
(* The last section models the two threads of                              *)
(* src/brainlink_realtime_plot_music.py around the shared player handle.   *)
(***************************************************************************)
EXTENDS Integers, Sequences, FiniteSets, TLC

VARIABLES
    buf,                 \* self._buf
    eeg,                 \* self._eeg           (BrainLinkData)
    ext,                 \* self._ext           (BrainLinkExtendData)
    last_eeg_snapshot,   \* self._last_eeg_snapshot
    last_ext_snapshot,   \* self._last_ext_snapshot
    last_ext_emit_time,  \* self._last_ext_emit_time
    unknown_stats,       \* self._unknown_stats
    registered,          \* the callbacks given to __init__
    now,                 \* time.time()
    calls,               \* the callback invocations made so far, in order
    decoded,             \* the payloads handed to _parse_payload so far, in order
    err,                 \* TRUE once a parse() call has raised an exception
    input,               \* the byte stream the environment has drawn to feed
    phase,               \* the number of parse() calls made so far
    pc,                  \* the position inside a parse() call taken step by step
    walk,                \* the payload and locals of _parse_payload in such a call
    stop_event,          \* brainlink_realtime_plot_music: stop_event.is_set()
    music_proc,          \* _music_proc: None or the handle of a player process
    music_lock,          \* _music_lock is held
    players,             \* the player processes that are running
    spawned,             \* the number of player processes started so far
    main_pc,             \* the position of the main thread
    main_round,          \* 1 in on_close, 2 in the final stop after plt.show()
    ble_pc,              \* the position of the BLE thread
    ble_med,             \* d.meditation of the onEEG call in progress
    ble_new              \* the process Popen has returned, not yet assigned

\* the state of the plot-and-music application
appVars == <<stop_event, music_proc, music_lock, players, spawned, main_pc,
             main_round, ble_pc, ble_med, ble_new>>

vars == <<buf, eeg, ext, last_eeg_snapshot, last_ext_snapshot, last_ext_emit_time,
          unknown_stats, registered, now, calls, decoded, err, input, phase,
          pc, walk, appVars>>

(***************************************************************************)
(* Program constants                                                       *)
(***************************************************************************)
Marker == 170
ShortLimit == 128
CodeSignal == 2
CodeAttention == 4
CodeMeditation == 5
CodeRaw == 128
CodeBands == 131
ExtEmitInterval == 3

None == <<>>
Some(v) == <<v>>

(***************************************************************************)
(* Byte helpers                                                            *)
(***************************************************************************)
\* sum(s), adding the two halves of s
RECURSIVE Sum(_)
Sum(s) ==
    IF s = <<>> THEN 0
    ELSE IF Len(s) = 1 THEN s[1]
    ELSE Sum(SubSeq(s, 1, Len(s) \div 2)) + Sum(SubSeq(s, Len(s) \div 2 + 1, Len(s)))

\* s[a:b] of Python for 0 <= a: the slice is cut at the end of s
Slice(s, a, b) == SubSeq(s, a + 1, IF b < Len(s) THEN b ELSE Len(s))

\* int.from_bytes(data, "big")
RECURSIVE FromBytesBig(_)
FromBytesBig(data) ==
    IF data = <<>> THEN 0
    ELSE FromBytesBig(SubSeq(data, 1, Len(data) - 1)) * 256 + data[Len(data)]

\* the two bytes read as an unsigned value
Int16_Unsigned(data) == FromBytesBig(data)

\* struct.unpack(">h", two bytes)
Int16(data) ==
    LET u == FromBytesBig(data) IN IF u >= 32768 THEN u - 65536 ELSE u

HexDigits(byte) == <<byte \div 16, byte % 16>>

\* data.hex(): two digits for each byte
Hex(data) ==
    [k \in 1..(2 * Len(data)) |-> HexDigits(data[(k + 1) \div 2])[2 - (k % 2)]]

\* f"0x{code:02X}"
Key(code) == HexDigits(code)

(***************************************************************************)
(* Data objects                                                            *)
(***************************************************************************)
BrainLinkData ==
    [signal |-> 0, attention |-> 0, meditation |-> 0,
     delta |-> 0, theta |-> 0, lowAlpha |-> 0, highAlpha |-> 0,
     lowBeta |-> 0, highBeta |-> 0, lowGamma |-> 0, highGamma |-> 0]

BrainLinkExtendData ==
    [battery |-> None, temperature |-> None, heart |-> None,
     gyro |-> None, rr |-> None, version |-> None, unknown |-> <<>>]

CallbackNames == {"eeg", "ext", "gyro", "raw"}

\* BrainLinkParser.__init__ with the callbacks of cbs registered
NewParser(cbs) ==
    [buf |-> <<>>, eeg |-> BrainLinkData, ext |-> BrainLinkExtendData,
     last_eeg_snapshot |-> None, last_ext_snapshot |-> None,
     last_ext_emit_time |-> 0, unknown_stats |-> <<>>,
     registered |-> cbs, calls |-> <<>>, decoded |-> <<>>, err |-> FALSE]

\* one callback invocation: which callback, its integer arguments, and the
\* two state records as the callee sees them; n is the ordinal of the payload
\* being decoded
Call(d, cb, args) ==
    [cb |-> cb, args |-> args, eeg |-> d.eeg, ext |-> d.ext, n |-> Len(d.decoded)]

Invoke(d, cb, args) ==
    IF cb \in d.registered THEN [d EXCEPT !.calls = Append(@, Call(d, cb, args))]
    ELSE d

(***************************************************************************)
(* Packet framing                                                          *)
(***************************************************************************)
\* the guard of the resynchronisation loop
OutOfSync(b) == Len(b) >= 2 /\ ~(b[1] = Marker /\ b[2] = Marker)

RECURSIVE SkipToMarker(_)
SkipToMarker(b) == IF OutOfSync(b) THEN SkipToMarker(Tail(b)) ELSE b

\* the checksum test with the mask 0x7F in place of 0xFF
ChecksumOk_Mask7(pl, checksum) == ((Sum(pl) % 128) + checksum) % 128 = 127

ChecksumOk(pl, checksum) == ((Sum(pl) % 256) + checksum) % 256 = 255

\* b[k] of Python raises IndexError unless 0 <= k < len(b)
HasIndex(b, k) == k < Len(b)

Waiting(b) == [buf |-> b, ok |-> FALSE, payload |-> <<>>, fault |-> FALSE]
Faulted(b) == [buf |-> b, ok |-> FALSE, payload |-> <<>>, fault |-> TRUE]

\* fewer bytes than the smallest frame: wait for more input
NeedHeader(b) == Len(b) < 4

\* the frame size without the checksum byte
FrameTotal_NoChecksum(length) == 3 + length

FrameTotal(length) == 3 + length + 1

\* the completeness test one byte short
NeedFrame_OffByOne(b, total) == Len(b) < total - 1

\* the frame announced by the length byte is not complete yet
NeedFrame(b, total) == Len(b) < total

\* a failed checksum that drops no byte
ChecksumFailed_KeepByte(b) == [buf |-> b, ok |-> FALSE, payload |-> <<>>, fault |-> FALSE]

\* the outcome of a failed checksum: one byte dropped, no packet
ChecksumFailed(b) == [buf |-> Tail(b), ok |-> FALSE, payload |-> <<>>, fault |-> FALSE]

\* the outcome of a good checksum: the frame removed, its payload returned
Extracted(b, length, total) ==
    [buf |-> Slice(b, total, Len(b)), ok |-> TRUE,
     payload |-> Slice(b, 3, 3 + length), fault |-> FALSE]

\* _extract_packet after its resynchronisation loop.  ok: a payload is
\* returned; fault: the code indexes past the end of the buffer (IndexError)
ExtractAligned(b) ==
    IF NeedHeader(b) THEN Waiting(b)
    ELSE IF ~HasIndex(b, 2) THEN Faulted(b)
    ELSE LET length == b[3]
             total == FrameTotal(length)
         IN  IF NeedFrame(b, total) THEN Waiting(b)
             ELSE IF ~HasIndex(b, 3 + length) THEN Faulted(b)
             ELSE IF ~ChecksumOk(Slice(b, 3, 3 + length), b[3 + length + 1])
                  THEN ChecksumFailed(b)
                  ELSE Extracted(b, length, total)

ExtractPacket(b) == ExtractAligned(SkipToMarker(b))

(***************************************************************************)
(* EEG decoding                                                            *)
(***************************************************************************)
Result(d, updated) == [d |-> d, updated |-> updated]

\* the short-field handler storing the value of any other code as the signal
HandleShort_DefaultSignal(d, code, val) ==
    IF code = CodeAttention THEN Result([d EXCEPT !.eeg.attention = val], TRUE)
    ELSE IF code = CodeMeditation THEN Result([d EXCEPT !.eeg.meditation = val], TRUE)
    ELSE Result([d EXCEPT !.eeg.signal = val], code = CodeSignal)

HandleShort(d, code, val) ==
    IF code = CodeSignal THEN Result([d EXCEPT !.eeg.signal = val], TRUE)
    ELSE IF code = CodeAttention THEN Result([d EXCEPT !.eeg.attention = val], TRUE)
    ELSE IF code = CodeMeditation THEN Result([d EXCEPT !.eeg.meditation = val], TRUE)
    ELSE Result(d, FALSE)

\* int.from_bytes(data[k:k+3], "big")
Band(data, k) == FromBytesBig(Slice(data, k, k + 3))

HandleLong(d, code, data) ==
    IF code = CodeRaw /\ Len(data) = 2
    THEN Result(Invoke(d, "raw", <<Int16(data)>>), FALSE)
    ELSE IF code = CodeBands /\ Len(data) = 24
    THEN Result([d EXCEPT !.eeg.delta = Band(data, 0),
                          !.eeg.theta = Band(data, 3),
                          !.eeg.lowAlpha = Band(data, 6),
                          !.eeg.highAlpha = Band(data, 9),
                          !.eeg.lowBeta = Band(data, 12),
                          !.eeg.highBeta = Band(data, 15),
                          !.eeg.lowGamma = Band(data, 18),
                          !.eeg.highGamma = Band(data, 21)], TRUE)
    ELSE Result(d, FALSE)

(***************************************************************************)
(* Extend decoding                                                         *)
(***************************************************************************)
IsGyro(data) == Len(data) = 6

IsHeart(data) ==
    Len(data) = 2 /\ 40 <= FromBytesBig(data) /\ FromBytesBig(data) <= 200

\* the battery test without its range check
IsBattery_AnyValue(data) == Len(data) = 1

IsBattery(data) == Len(data) = 1 /\ data[1] <= 100

\* 20.0 <= v / 10.0 <= 45.0, on the integer v
IsTemperature(data) ==
    Len(data) = 2 /\ 200 <= FromBytesBig(data) /\ FromBytesBig(data) <= 450

\* the three values unpacked as unsigned (">HHH")
Unpack3_Unsigned(data) ==
    <<FromBytesBig(Slice(data, 0, 2)), FromBytesBig(Slice(data, 2, 4)),
      FromBytesBig(Slice(data, 4, 6))>>

\* struct.unpack(">hhh", data)
Unpack3(data) ==
    <<Int16(Slice(data, 0, 2)), Int16(Slice(data, 2, 4)), Int16(Slice(data, 4, 6))>>

\* a lookup that always gives the default record
StatOf_Fresh(stats, key) == [count |-> 0, lens |-> {}, last |-> None]

\* self._unknown_stats[key] of the defaultdict
StatOf(stats, key) ==
    IF key \in DOMAIN stats THEN stats[key]
    ELSE [count |-> 0, lens |-> {}, last |-> None]

Put(map, key, val) ==
    [k \in DOMAIN map \cup {key} |-> IF k = key THEN val ELSE map[k]]

\* the unknown branch without the increment of the count
TrackUnknown_NoCount(d, code, data) ==
    LET key == Key(code)
        old == StatOf(d.unknown_stats, key)
        stat == [count |-> old.count,
                 lens |-> old.lens \cup {Len(data)},
                 last |-> Some(Hex(data))]
    IN  [d EXCEPT !.unknown_stats = Put(@, key, stat),
                  !.ext.unknown = Put(@, key, stat)]

\* the unknown branch: the statistics of the code are updated and copied
\* into ext.unknown
TrackUnknown(d, code, data) ==
    LET key == Key(code)
        old == StatOf(d.unknown_stats, key)
        stat == [count |-> old.count + 1,
                 lens |-> old.lens \cup {Len(data)},
                 last |-> Some(Hex(data))]
    IN  [d EXCEPT !.unknown_stats = Put(@, key, stat),
                  !.ext.unknown = Put(@, key, stat)]

HandleExtend(d, code, data) ==
    IF code \in {CodeRaw, CodeBands} THEN Result(d, FALSE)
    ELSE IF IsGyro(data)
    THEN Result(Invoke([d EXCEPT !.ext.gyro = Some(Unpack3(data))],
                       "gyro", Unpack3(data)), TRUE)
    ELSE IF IsHeart(data)
    THEN Result([d EXCEPT !.ext.heart = Some(FromBytesBig(data))], TRUE)
    ELSE IF IsBattery(data)
    THEN Result([d EXCEPT !.ext.battery = Some(data[1])], TRUE)
    ELSE IF IsTemperature(data)
    THEN Result([d EXCEPT !.ext.temperature = Some(FromBytesBig(data))], TRUE)
    ELSE Result(TrackUnknown(d, code, data), FALSE)

(***************************************************************************)
(* Emit logic                                                              *)
(***************************************************************************)
\* the cognitive-state emit without the comparison with the last snapshot
EmitEegIfChanged_NoGate(d, updated) ==
    IF ~updated \/ "eeg" \notin d.registered THEN d
    ELSE Invoke([d EXCEPT !.last_eeg_snapshot = Some(d.eeg)], "eeg", <<>>)

EmitEegIfChanged(d, updated) ==
    IF ~updated \/ "eeg" \notin d.registered THEN d
    ELSE IF Some(d.eeg) # d.last_eeg_snapshot
         THEN Invoke([d EXCEPT !.last_eeg_snapshot = Some(d.eeg)], "eeg", <<>>)
         ELSE d

ExtSnapshot(e) ==
    [battery |-> e.battery, temperature |-> e.temperature, heart |-> e.heart,
     gyro |-> e.gyro, rr |-> e.rr, version |-> e.version]

Throttled(t, last) == t - last < ExtEmitInterval

\* the extended emit that does not record the time of the emission
EmitExtIfChanged_NoStamp(d, updated, t) ==
    IF ~updated \/ "ext" \notin d.registered THEN d
    ELSE IF Throttled(t, d.last_ext_emit_time) THEN d
    ELSE IF Some(ExtSnapshot(d.ext)) # d.last_ext_snapshot
         THEN Invoke([d EXCEPT !.last_ext_snapshot = Some(ExtSnapshot(d.ext))],
                     "ext", <<t>>)
         ELSE d

EmitExtIfChanged(d, updated, t) ==
    IF ~updated \/ "ext" \notin d.registered THEN d
    ELSE IF Throttled(t, d.last_ext_emit_time) THEN d
    ELSE IF Some(ExtSnapshot(d.ext)) # d.last_ext_snapshot
         THEN Invoke([d EXCEPT !.last_ext_snapshot = Some(ExtSnapshot(d.ext)),
                               !.last_ext_emit_time = t], "ext", <<t>>)
         ELSE d

(***************************************************************************)
(* Payload parsing                                                         *)
(***************************************************************************)
\* the locals of _parse_payload; running is FALSE once the loop has hit break
WalkStart(d) ==
    [d |-> d, i |-> 0, eeg_updated |-> FALSE, ext_updated |-> FALSE,
     running |-> TRUE]

Break(w, i1) == [w EXCEPT !.i = i1, !.running = FALSE]

\* the short-field branch of the loop body, after code was read (i1 = i + 1)
ShortField(w, pl, code, i1) ==
    IF i1 >= Len(pl) THEN Break(w, i1)
    ELSE LET r == HandleShort(w.d, code, pl[i1 + 1])
         IN  [w EXCEPT !.d = r.d, !.i = i1 + 1,
                       !.eeg_updated = @ \/ r.updated]

\* the long-field branch of the loop body
LongField(w, pl, code, i1) ==
    IF i1 >= Len(pl) THEN Break(w, i1)
    ELSE LET size == pl[i1 + 1]
             block == Slice(pl, i1 + 1, i1 + 1 + size)
             rl == HandleLong(w.d, code, block)
             re == HandleExtend(rl.d, code, block)
         IN  [w EXCEPT !.d = re.d, !.i = i1 + 1 + size,
                       !.eeg_updated = @ \/ rl.updated,
                       !.ext_updated = @ \/ re.updated]

\* one iteration of the while loop of _parse_payload (entered with i < len)
WalkStep(w, pl) ==
    LET code == pl[w.i + 1]
    IN  IF code < ShortLimit THEN ShortField(w, pl, code, w.i + 1)
        ELSE LongField(w, pl, code, w.i + 1)

WalkDone(w, pl) == ~w.running \/ w.i >= Len(pl)

RECURSIVE Walk(_, _)
Walk(w, pl) == IF WalkDone(w, pl) THEN w ELSE Walk(WalkStep(w, pl), pl)

\* the two emit calls that end _parse_payload
Emit(w, t) ==
    EmitExtIfChanged(EmitEegIfChanged(w.d, w.eeg_updated), w.ext_updated, t)

ParsePayload(d, pl, t) == Emit(Walk(WalkStart(d), pl), t)

(***************************************************************************)
(* parse                                                                   *)
(***************************************************************************)
\* the while True loop of parse
RECURSIVE ExtractLoop(_, _)
ExtractLoop(d, t) ==
    LET r == ExtractPacket(d.buf)
    IN  IF r.fault THEN [d EXCEPT !.buf = r.buf, !.err = TRUE]
        ELSE IF ~r.ok THEN [d EXCEPT !.buf = r.buf]
        ELSE ExtractLoop(ParsePayload([d EXCEPT !.buf = r.buf,
                                                !.decoded = Append(@, r.payload)],
                                      r.payload, t), t)

\* parse with the buffer replaced by the chunk instead of extended by it
Parse_NoAccumulate(d, data, t) ==
    IF data = <<>> THEN d
    ELSE ExtractLoop([d EXCEPT !.buf = data], t)

Parse(d, data, t) ==
    IF data = <<>> THEN d
    ELSE ExtractLoop([d EXCEPT !.buf = @ \o data], t)

(***************************************************************************)
(* The decoder as a state machine                                          *)
(***************************************************************************)
Self ==
    [buf |-> buf, eeg |-> eeg, ext |-> ext,
     last_eeg_snapshot |-> last_eeg_snapshot,
     last_ext_snapshot |-> last_ext_snapshot,
     last_ext_emit_time |-> last_ext_emit_time,
     unknown_stats |-> unknown_stats, registered |-> registered,
     calls |-> calls, decoded |-> decoded, err |-> err]

\* the decoder is d
Is(d) ==
    /\ buf = d.buf
    /\ eeg = d.eeg
    /\ ext = d.ext
    /\ last_eeg_snapshot = d.last_eeg_snapshot
    /\ last_ext_snapshot = d.last_ext_snapshot
    /\ last_ext_emit_time = d.last_ext_emit_time
    /\ unknown_stats = d.unknown_stats
    /\ registered = d.registered
    /\ calls = d.calls
    /\ decoded = d.decoded
    /\ err = d.err

\* the decoder becomes d
Assign(d) ==
    /\ buf' = d.buf
    /\ eeg' = d.eeg
    /\ ext' = d.ext
    /\ last_eeg_snapshot' = d.last_eeg_snapshot
    /\ last_ext_snapshot' = d.last_ext_snapshot
    /\ last_ext_emit_time' = d.last_ext_emit_time
    /\ unknown_stats' = d.unknown_stats
    /\ registered' = d.registered
    /\ calls' = d.calls
    /\ decoded' = d.decoded
    /\ err' = d.err

\* the decoder becomes d in a program that is the decoder alone
Become(d) == Assign(d) /\ UNCHANGED appVars

\* the plot-and-music application has not been started
AppOff ==
    /\ stop_event = FALSE
    /\ music_proc = <<>>
    /\ music_lock = FALSE
    /\ players = {}
    /\ spawned = 0
    /\ main_pc = "off"
    /\ main_round = 0
    /\ ble_pc = "off"
    /\ ble_med = 0
    /\ ble_new = 0

Idle == [i |-> 0, eeg_updated |-> FALSE, ext_updated |-> FALSE, running |-> FALSE,
         payload |-> <<>>]

\* the frame that carries payload pl
Checksum(pl) == (255 - (Sum(pl) % 256)) % 256
Frame(pl) == <<Marker, Marker, Len(pl)>> \o pl \o <<Checksum(pl)>>

(***************************************************************************)
(* The environment of the main specification: whole frames, one or two per *)
(* chunk, and a clock that advances between the calls                      *)
(***************************************************************************)
MaxCalls == 3
MaxTicks == 3

BandsBlock == [k \in 1..24 |-> IF k % 3 = 0 THEN k ELSE 0]

Payloads ==
    { <<4, 50>>,                          \* attention 50
      <<4, 50, 5, 60>>,                   \* attention 50, meditation 60
      <<3, 7>>,                           \* an unrecognized short code
      <<128, 2, 255, 254>>,               \* a raw sample, -2
      <<131, 24>> \o BandsBlock,          \* the band powers
      <<144, 6, 0, 1, 255, 255, 128, 0>>, \* gyro (1, -1, -32768)
      <<145, 2, 0, 72>>,                  \* heart 72
      <<146, 1, 100, 4, 50>>,             \* battery 100, then attention 50
      <<148, 1, 101>>,                    \* a block no heuristic accepts
      <<148, 3, 1, 2>> }                  \* a long field cut short by the payload's end

Chunks ==
    {Frame(p) : p \in Payloads}
        \cup {Frame(<<4, 50>>) \o Frame(<<4, 50>>),
              Frame(<<145, 2, 0, 72>>) \o Frame(<<144, 6, 0, 2, 0, 0, 0, 0>>)}

\* the callback registrations tried: each callback is present in two and
\* absent in two
Registrations == {CallbackNames, {}, {"eeg", "gyro"}, {"ext", "raw"}}

Init ==
    /\ \E cbs \in Registrations : Is(NewParser(cbs))
    /\ now = ExtEmitInterval
    /\ input = <<>>
    /\ phase = 0
    /\ pc = "idle"
    /\ walk = Idle
    /\ AppOff

\* parser.parse(data), the whole call
ParseCall(data) ==
    /\ phase < MaxCalls
    /\ Become(Parse(Self, data, now))
    /\ phase' = phase + 1
    /\ UNCHANGED <<now, input, pc, walk>>

\* the wall clock advances by one second
Tick ==
    /\ now < ExtEmitInterval + MaxTicks
    /\ now' = now + 1
    /\ UNCHANGED <<buf, eeg, ext, last_eeg_snapshot, last_ext_snapshot,
                   last_ext_emit_time, unknown_stats, registered, calls, decoded,
                   err, input, phase, pc, walk>>
    /\ UNCHANGED appVars

Next == (\E data \in Chunks : ParseCall(data)) \/ Tick

Spec == Init /\ [][Next]_vars

(***************************************************************************)
(* The environment of the framing specification: chunks cut at every       *)
(* offset out of streams of valid frames, corrupted frames and stray bytes *)
(***************************************************************************)
MaxFeeds == 2
MaxBuf == 12

\* frame f with the byte at offset k (from 0) replaced by v
Replace(f, k, v) == [f EXCEPT ![k + 1] = v]

Pieces ==
    { Frame(<<4, 50>>),                    \* AA AA 02 04 32 C9
      Frame(<<>>),                         \* AA AA 00 FF
      Replace(Frame(<<4, 50>>), 4, 51),    \* a payload byte corrupted
      <<0>>, <<Marker>> }

Streams == Pieces \cup {p \o q : p \in Pieces, q \in Pieces}

FramingChunks ==
    UNION { {SubSeq(s, a, b) : a \in 1..Len(s), b \in 1..Len(s)} \ {<<>>} : s \in Streams }

\* parser.parse(data) on a chunk of the framing environment
FeedChunk(data) ==
    /\ Len(buf) + Len(data) <= MaxBuf
    /\ Become(Parse(Self, data, now))
    /\ phase' = phase + 1
    /\ UNCHANGED <<now, input, pc, walk>>

NextFraming == phase < MaxFeeds /\ \E data \in FramingChunks : FeedChunk(data)

SpecFraming == Init /\ [][NextFraming]_vars

\* the extractor, run again up to n times on buffer b, returns a payload
RECURSIVE RerunYields(_, _)
RerunYields(b, n) ==
    /\ n > 0
    /\ LET r == ExtractPacket(b)
       IN  r.ok \/ (r.buf # b /\ RerunYields(r.buf, n - 1))

\* C1: whenever parse() has returned, the buffer holds no complete,
\* checksum-valid frame left unextracted: running the frame extractor again
\* on the buffer, any number of times, yields no payload.
C1_NoFrameLeftBehind == phase > 0 => ~RerunYields(buf, Len(buf) + 1)

(***************************************************************************)
(* The environment of the single-frame specification: one frame, valid or  *)
(* with one payload byte replaced, fed to a decoder whose buffer is empty  *)
(***************************************************************************)
MaxPayloadLen == 2

Byte == 0..255

\* the payload bytes tried: zero, a short code, a long code, the marker, 255
PayloadBytes == {0, CodeAttention, 50, 145, Marker, 255}

RECURSIVE Seqs(_, _)
Seqs(S, n) ==
    IF n = 0 THEN {<<>>}
    ELSE Seqs(S, n - 1) \cup {Append(s, x) : s \in Seqs(S, n - 1), x \in S}

ShortPayloads == Seqs(PayloadBytes, MaxPayloadLen)

\* payloads of the greatest length the length byte can announce, each one
\* long field whose block runs to the end of the payload
LongPayloads == {[k \in 1..255 |-> x] : x \in {145, Marker, 255}}

\* a scenario: the payload, and either no replacement (flip = <<>>) or the
\* offset in the payload and the value put there (flip = <<k, v>>)
\* position k of payload p may be given the value v: some other byte
Flips(p, k, v) == k < Len(p) /\ v # p[k + 1]

ChunkOf(sc) ==
    IF sc.flip = <<>> THEN Frame(sc.payload)
    ELSE Replace(Frame(sc.payload), 3 + sc.flip[1], sc.flip[2])

InitFrame ==
    /\ Is(NewParser(CallbackNames))
    /\ now = ExtEmitInterval
    /\ \/ \E p \in ShortPayloads \cup LongPayloads :
              input = [payload |-> p, flip |-> <<>>]
       \/ \E p \in ShortPayloads, k \in 0..(MaxPayloadLen - 1), v \in Byte :
              Flips(p, k, v) /\ input = [payload |-> p, flip |-> <<k, v>>]
    /\ phase = 0
    /\ pc = "idle"
    /\ walk = Idle
    /\ AppOff

\* parser.parse(data) on the frame of the scenario
FeedFrame ==
    /\ phase = 0
    /\ Become(Parse(Self, ChunkOf(input), now))
    /\ phase' = 1
    /\ UNCHANGED <<now, input, pc, walk>>

SpecFrame == InitFrame /\ [][FeedFrame]_vars

\* C3: a valid frame with one payload byte replaced by a different value
\* fails validation: no payload is decoded, no callback runs, and the buffer
\* is the frame without its first marker byte.
C3_FlipDropsOneByte ==
    (phase = 1 /\ input.flip # <<>>) =>
        /\ decoded = <<>>
        /\ calls = <<>>
        /\ ~err
        /\ buf = Tail(ChunkOf(input))
        /\ Len(buf) = Len(Frame(input.payload)) - 1

C3_Witness ==
    /\ phase = 1
    /\ input.flip # <<>>
    /\ Len(input.payload) = 2
    /\ buf = Tail(ChunkOf(input))

\* C4: the frame AA AA len(P) P chk built for payload P is accepted by a
\* decoder with an empty buffer: P, and nothing else, reaches the payload
\* decoder, once, and the buffer is empty afterwards.
C4_ValidFrameDecoded ==
    (phase = 1 /\ input.flip = <<>>) =>
        /\ decoded = <<input.payload>>
        /\ buf = <<>>
        /\ ~err

C4_Witness ==
    /\ phase = 1
    /\ input.flip = <<>>
    /\ Len(input.payload) = 255
    /\ decoded = <<input.payload>>
    /\ buf = <<>>

(***************************************************************************)
(* The environment of the split specification: a stream of valid frames    *)
(* cut in two at an offset, the two parts fed to a fresh decoder           *)
(***************************************************************************)
MaxFrames == 2

RECURSIVE Concat(_)
Concat(ss) == IF ss = <<>> THEN <<>> ELSE Head(ss) \o Concat(Tail(ss))

ValidStreams ==
    {Concat(fs) : fs \in Seqs({Frame(p) : p \in Payloads}, MaxFrames) \ {<<>>}}

\* the offsets at which a stream of at most MaxFrames frames of Payloads
\* can be cut: every one from 0 to its length
Offsets(stream) == 0..Len(stream)

InitSplit ==
    /\ \E cbs \in Registrations : Is(NewParser(cbs))
    /\ now = ExtEmitInterval
    /\ \E stream \in ValidStreams :
           \E k \in Offsets(stream) : input = [stream |-> stream, offset |-> k]
    /\ phase = 0
    /\ pc = "idle"
    /\ walk = Idle
    /\ AppOff

\* parser.parse(stream[:offset])
FeedFirst ==
    /\ phase = 0
    /\ Become(Parse(Self, Slice(input.stream, 0, input.offset), now))
    /\ phase' = 1
    /\ UNCHANGED <<now, input, pc, walk>>

\* parser.parse(stream[offset:])
FeedSecond ==
    /\ phase = 1
    /\ Become(Parse(Self, Slice(input.stream, input.offset, Len(input.stream)), now))
    /\ phase' = 2
    /\ UNCHANGED <<now, input, pc, walk>>

NextSplit == FeedFirst \/ FeedSecond

SpecSplit == InitSplit /\ [][NextSplit]_vars

\* C2: a stream of valid frames fed to a fresh decoder in two parse() calls,
\* cut at any offset, leaves the same callback invocations in the same
\* order, the same decoded payloads, the same state records and the same
\* buffer as the whole stream fed in one parse() call at the same clock.
C2_SplitEquivalence ==
    phase = 2 => Self = Parse(NewParser(registered), input.stream, now)

C2_Witness ==
    /\ phase = 2
    /\ input.offset = 1
    /\ Len(decoded) = 2
    /\ Len(calls) >= 2
    /\ buf = <<>>

(***************************************************************************)
(* The field grammar and the classification the claims refer to           *)
(***************************************************************************)
\* the fields of a payload, each with its code and its value or block
RECURSIVE FieldsOf(_)
FieldsOf(pl) ==
    IF Len(pl) < 2 THEN <<>>
    ELSE IF pl[1] < 128
    THEN <<[code |-> pl[1], data |-> <<pl[2]>>]>> \o FieldsOf(SubSeq(pl, 3, Len(pl)))
    ELSE <<[code |-> pl[1], data |-> Slice(pl, 2, 2 + pl[2])]>>
             \o FieldsOf(Slice(pl, 2 + pl[2], Len(pl)))

\* a signed sixteen-bit big-endian value
Signed16(hi, lo) == hi * 256 + lo - (IF hi >= 128 THEN 65536 ELSE 0)

\* the three axes of a 6-byte block
RefGyro(b) == <<Signed16(b[1], b[2]), Signed16(b[3], b[4]), Signed16(b[5], b[6])>>

\* the unsigned big-endian value of a block of one or two bytes
RefValue(b) == IF Len(b) = 1 THEN b[1] ELSE b[1] * 256 + b[2]

\* what a field is recognized as
ClassOf(f) ==
    LET v == IF Len(f.data) \in {1, 2} THEN RefValue(f.data) ELSE 0
    IN  IF f.code < 128
        THEN (IF f.code = 2 THEN "signal"
              ELSE IF f.code = 4 THEN "attention"
              ELSE IF f.code = 5 THEN "meditation"
              ELSE "skipped")
        ELSE IF f.code = 128 THEN (IF Len(f.data) = 2 THEN "raw" ELSE "ignored")
        ELSE IF f.code = 131 THEN (IF Len(f.data) = 24 THEN "bands" ELSE "ignored")
        ELSE IF Len(f.data) = 6 THEN "gyro"
        ELSE IF Len(f.data) = 2 /\ v >= 40 /\ v <= 200 THEN "heart"
        ELSE IF Len(f.data) = 1 /\ v <= 100 THEN "battery"
        ELSE IF Len(f.data) = 2 /\ v > 200 /\ v <= 450 THEN "temperature"
        ELSE "unknown"

CognitiveClasses == {"signal", "attention", "meditation", "bands"}

RECURSIVE AnyClass(_, _)
AnyClass(fs, classes) ==
    fs # <<>> /\ (ClassOf(Head(fs)) \in classes \/ AnyClass(Tail(fs), classes))

HasClass(pl, classes) == AnyClass(FieldsOf(pl), classes)

CallsOf(cb) == SelectSeq(calls, LAMBDA c : c.cb = cb)

\* the fields of all the payloads decoded so far, in order
AllFields == Concat([k \in 1..Len(decoded) |-> FieldsOf(decoded[k])])

\* the data of the last field of class c among fs, or None
RECURSIVE LastData(_, _)
LastData(fs, c) ==
    IF fs = <<>> THEN None
    ELSE IF ClassOf(fs[Len(fs)]) = c THEN Some(fs[Len(fs)].data)
    ELSE LastData(SubSeq(fs, 1, Len(fs) - 1), c)

\* the attribute value for the data of a field, None staying None
OptGyro(o) == IF o = None THEN None ELSE Some(RefGyro(o[1]))
OptValue(o) == IF o = None THEN None ELSE Some(RefValue(o[1]))

\* C5: the cognitive-state callback runs for a payload only if the payload
\* holds a recognized cognitive field and the CognitiveState differs from
\* the one passed at the previous invocation; so consecutive invocations
\* never carry equal snapshots, and two consecutive equal payloads cause at
\* most one invocation between them.
C5_EegChangeGate ==
    LET e == CallsOf("eeg")
    IN  /\ \A k \in 1..Len(e) :
              /\ e[k].n \in 1..Len(decoded)
              /\ HasClass(decoded[e[k].n], CognitiveClasses)
              /\ k > 1 => e[k].eeg # e[k - 1].eeg
              /\ k > 1 => e[k].n > e[k - 1].n
        /\ \A m \in 1..(Len(decoded) - 1) :
              decoded[m] = decoded[m + 1] =>
                  Cardinality({k \in 1..Len(e) : e[k].n \in {m, m + 1}}) <= 1

C5_Witness ==
    /\ Len(decoded) = 2
    /\ decoded[1] = <<4, 50>>
    /\ decoded[2] = <<4, 50>>
    /\ Len(CallsOf("eeg")) = 1
    /\ CallsOf("eeg")[1].n = 1
    /\ CallsOf("eeg")[1].eeg.attention = 50

\* C6: the clock never going back, any two invocations of the
\* extended-telemetry callback are at least the throttle interval apart,
\* and every telemetry attribute holds the value of the last field decoded
\* for it whether or not the callback ran.
C6_ExtThrottle ==
    LET x == CallsOf("ext")
    IN  /\ \A k \in 2..Len(x) : x[k].args[1] - x[k - 1].args[1] >= ExtEmitInterval
        /\ \A k \in 1..Len(x) : x[k].args[1] <= now
        /\ LET fs == AllFields
           IN  /\ ext.gyro = OptGyro(LastData(fs, "gyro"))
               /\ ext.heart = OptValue(LastData(fs, "heart"))
               /\ ext.battery = OptValue(LastData(fs, "battery"))
               /\ ext.temperature = OptValue(LastData(fs, "temperature"))

\* two invocations the interval apart, then a telemetry-changing frame less
\* than the interval after the second: no third invocation, and the update
\* is in the state
C6_Witness ==
    /\ Len(decoded) = 3
    /\ decoded[3] = <<146, 1, 100, 4, 50>>
    /\ Len(CallsOf("ext")) = 2
    /\ CallsOf("ext")[2].args[1] - CallsOf("ext")[1].args[1] = ExtEmitInterval
    /\ now - CallsOf("ext")[2].args[1] < ExtEmitInterval
    /\ CallsOf("ext")[2].ext.battery = None
    /\ ext.battery = Some(100)

(***************************************************************************)
(* The environment of the classifier specification: a decoder, fresh or    *)
(* primed with one frame that sets every telemetry attribute, is fed one   *)
(* frame holding a single long field, at once or an interval later         *)
(***************************************************************************)
\* long-field codes: the neighbours of the reserved ones, the marker, the
\* greatest code, and the two reserved codes themselves
LongCodes == {129, 130, 132, 144, Marker, 255, CodeRaw, CodeBands}

\* the sixteen-bit values tried for a gyro axis, as byte pairs
AxisPairs == {<<0, 0>>, <<0, 72>>, <<127, 255>>, <<128, 0>>, <<255, 255>>}

Blocks ==
    {x \o y \o z : x \in AxisPairs, y \in AxisPairs, z \in AxisPairs}
        \cup {<<v>> : v \in Byte}
        \cup {<<hi, lo>> : hi \in {0, 1, 2, 255}, lo \in Byte}
        \cup {<<>>, <<1, 2, 3>>, <<0, 0, 0, 0, 0, 0, 0>>}

PrimePayload ==
    <<144, 6, 0, 0, 0, 0, 0, 0, 145, 2, 0, 72, 146, 1, 100, 147, 2, 1, 109,
      144, 1, 200>>

InitClassify ==
    /\ \E cbs \in Registrations : Is(NewParser(cbs))
    /\ now = ExtEmitInterval
    /\ input = <<>>
    /\ phase = 0
    /\ pc = "idle"
    /\ walk = Idle
    /\ AppOff

\* parser.parse(frame) with the frame that sets every telemetry attribute
Prime ==
    /\ phase = 0
    /\ Become(Parse(Self, Frame(PrimePayload), now))
    /\ phase' = 1
    /\ UNCHANGED <<now, input, pc, walk>>

\* the throttle interval passes
Elapse ==
    /\ phase < 2
    /\ now = ExtEmitInterval
    /\ now' = now + ExtEmitInterval
    /\ UNCHANGED <<buf, eeg, ext, last_eeg_snapshot, last_ext_snapshot,
                   last_ext_emit_time, unknown_stats, registered, calls, decoded,
                   err, input, phase, pc, walk>>
    /\ UNCHANGED appVars

\* parser.parse(frame) with a frame of the one long field (code, block); the
\* state records as they were before the call are kept in input
Classify(code, block) ==
    /\ Become(Parse(Self, Frame(<<code, Len(block)>> \o block), now))
    /\ input' = [code |-> code, block |-> block, ext |-> ext,
                 unknown_stats |-> unknown_stats, ncalls |-> Len(calls)]
    /\ phase' = 2
    /\ UNCHANGED <<now, pc, walk>>

NextClassify ==
    \/ Prime
    \/ Elapse
    \/ phase < 2 /\ \E code \in LongCodes, block \in Blocks : Classify(code, block)

SpecClassify == InitClassify /\ [][NextClassify]_vars

\* the callback invocations of the last call
NewCalls == SubSeq(calls, input.ncalls + 1, Len(calls))
NewCallsOf(cb) == SelectSeq(NewCalls, LAMBDA c : c.cb = cb)

Reserved(code) == code \in {128, 131}

\* C7: a 6-byte block under a code other than the two reserved ones is
\* taken as gyro whatever its values: ExtendedTelemetry.gyro becomes the
\* three signed 16-bit big-endian values, and the gyro callback, if
\* registered, runs exactly once with them, whether or not the
\* extended-telemetry callback runs.
C7_SixBytesAreGyro ==
    (phase = 2 /\ ~Reserved(input.code) /\ Len(input.block) = 6) =>
        LET xyz == RefGyro(input.block)
        IN  /\ ext.gyro = Some(xyz)
            /\ ext = [input.ext EXCEPT !.gyro = Some(xyz)]
            /\ unknown_stats = input.unknown_stats
            /\ IF "gyro" \in registered
               THEN Len(NewCallsOf("gyro")) = 1 /\ NewCallsOf("gyro")[1].args = xyz
               ELSE NewCallsOf("gyro") = <<>>

\* the extended-telemetry callback is registered and throttled, the gyro
\* callback runs
C7_Witness ==
    /\ phase = 2
    /\ input.code = 255
    /\ input.block = <<128, 0, 255, 255, 0, 72>>
    /\ {"ext", "gyro"} \subseteq registered
    /\ Len(CallsOf("ext")) = 1
    /\ NewCallsOf("ext") = <<>>
    /\ Len(NewCallsOf("gyro")) = 1
    /\ ext.gyro = Some(<<-32768, -1, 72>>)
    /\ input.ext.gyro = Some(<<0, 0, 0>>)

\* C8: a block of length 1 or 2 under a code other than the two reserved
\* ones is classified in fixed priority: length 2 and value in [40, 200]
\* sets only heart; length 1 and value <= 100 sets only battery; length 2
\* and value / 10 in [20.0, 45.0], outside the heart range, sets only
\* temperature; any other block changes no telemetry attribute and is
\* counted in the unknown tracker under its code.
C8_ClassifierPriority ==
    (phase = 2 /\ ~Reserved(input.code) /\ Len(input.block) \in {1, 2}) =>
        LET b == input.block
            v == RefValue(b)
            key == Key(input.code)
            old == IF key \in DOMAIN input.unknown_stats
                   THEN input.unknown_stats[key].count ELSE 0
        IN  IF Len(b) = 2 /\ v >= 40 /\ v <= 200
            THEN /\ ext = [input.ext EXCEPT !.heart = Some(v)]
                 /\ unknown_stats = input.unknown_stats
            ELSE IF Len(b) = 1 /\ v <= 100
            THEN /\ ext = [input.ext EXCEPT !.battery = Some(v)]
                 /\ unknown_stats = input.unknown_stats
            ELSE IF Len(b) = 2 /\ v >= 200 /\ v <= 450
            THEN /\ ext = [input.ext EXCEPT !.temperature = Some(v)]
                 /\ unknown_stats = input.unknown_stats
            ELSE /\ ExtSnapshot(ext) = ExtSnapshot(input.ext)
                 /\ key \in DOMAIN unknown_stats
                 /\ unknown_stats[key].count = old + 1
                 /\ Len(b) \in unknown_stats[key].lens
                 /\ unknown_stats[key].last = Some(Hex(b))
                 /\ ext.unknown[key] = unknown_stats[key]
                 /\ \A k \in DOMAIN input.unknown_stats :
                        k # key => /\ k \in DOMAIN unknown_stats
                                   /\ unknown_stats[k] = input.unknown_stats[k]
                 /\ NewCalls = <<>>

\* a 1-byte block of value 101 goes to the unknown tracker, not to battery
C8_Witness ==
    /\ phase = 2
    /\ input.code = 144
    /\ input.block = <<101>>
    /\ input.ext.battery = Some(100)
    /\ ext.battery = Some(100)
    /\ unknown_stats[Key(144)].count = 2

BandNames ==
    {"delta", "theta", "lowAlpha", "highAlpha", "lowBeta", "highBeta",
     "lowGamma", "highGamma"}

\* some payload of ps holds a field of class c
SomeHas(ps, c) == \E k \in 1..Len(ps) : HasClass(ps[k], {c})

\* every field of every payload of ps is a short field of unrecognized code
RECURSIVE AllSkipped(_)
AllSkipped(fs) ==
    fs = <<>> \/ (ClassOf(Head(fs)) = "skipped" /\ AllSkipped(Tail(fs)))

\* what one parse() call may change, given the payloads it decoded
FrameEffect ==
    LET new == SubSeq(decoded', Len(decoded) + 1, Len(decoded'))
    IN  /\ eeg'.signal # eeg.signal => SomeHas(new, "signal")
        /\ eeg'.attention # eeg.attention => SomeHas(new, "attention")
        /\ eeg'.meditation # eeg.meditation => SomeHas(new, "meditation")
        /\ \A f \in BandNames : eeg'[f] # eeg[f] => SomeHas(new, "bands")
        /\ ext'.battery # ext.battery => SomeHas(new, "battery")
        /\ ext'.temperature # ext.temperature => SomeHas(new, "temperature")
        /\ ext'.heart # ext.heart => SomeHas(new, "heart")
        /\ ext'.gyro # ext.gyro => SomeHas(new, "gyro")
        /\ ext'.rr = ext.rr
        /\ ext'.version = ext.version
        /\ (new # <<>> /\ \A k \in 1..Len(new) :
                              new[k] # <<>> /\ AllSkipped(FieldsOf(new[k])))
               => /\ eeg' = eeg
                  /\ ext' = ext
                  /\ unknown_stats' = unknown_stats
                  /\ last_eeg_snapshot' = last_eeg_snapshot
                  /\ last_ext_snapshot' = last_ext_snapshot
                  /\ last_ext_emit_time' = last_ext_emit_time
                  /\ calls' = calls

\* C9: a parse() call changes a CognitiveState field or an optional
\* ExtendedTelemetry attribute only if a payload it decoded holds a field
\* recognized for it, every other one keeping its value; and payloads of
\* unrecognized short codes alone change no state and run no callback.
C9_FrameEffect == [][FrameEffect]_vars

\* values set by earlier frames are still there after a frame of an
\* unrecognized short code
C9_Witness ==
    /\ Len(decoded) = 3
    /\ decoded[1] = <<145, 2, 0, 72>>
    /\ decoded[2] = <<4, 50, 5, 60>>
    /\ decoded[3] = <<3, 7>>
    /\ ext.heart = Some(72)
    /\ eeg.attention = 50
    /\ eeg.meditation = 60
    /\ eeg.signal = 0

(***************************************************************************)
(* parse() taken one loop iteration at a time.  pc is "idle" outside the   *)
(* call, "extract" at the head of an iteration of the while True loop (in  *)
(* _extract_packet) and "walk" inside _parse_payload.                      *)
(***************************************************************************)
StepChunks ==
    { <<>>,
      Frame(<<4, 50>>),
      <<0>> \o Frame(<<4, 50>>) \o Replace(Frame(<<4, 50>>), 4, 51),
      Replace(Frame(<<4, 50>>), 4, 51) \o Frame(<<>>),
      <<Marker, Marker, 2>>, <<4, 50, 201>>, <<Marker, Marker, 1, 0>>,
      Frame(<<3>>), Frame(<<4, 50, 144>>),
      Frame(<<148, 3, 1, 2>>), Frame(<<148, 0, 145, 2, 0, 72>>),
      Frame(<<131, 24>> \o BandsBlock \o <<128, 2, 255, 254>>) }

InitSteps ==
    /\ \E cbs \in {CallbackNames, {}} : Is(NewParser(cbs))
    /\ now = ExtEmitInterval
    /\ input = <<>>
    /\ phase = 0
    /\ pc = "idle"
    /\ walk = Idle
    /\ AppOff

\* parse(data) is entered: the chunk is appended, or the call returns at
\* once on an empty chunk
Enter(data) ==
    /\ pc = "idle"
    /\ phase < MaxFeeds
    /\ phase' = phase + 1
    /\ buf' = buf \o data
    /\ pc' = IF data = <<>> THEN "idle" ELSE "extract"
    /\ UNCHANGED <<eeg, ext, last_eeg_snapshot, last_ext_snapshot,
                   last_ext_emit_time, unknown_stats, registered, now, calls,
                   decoded, err, input, walk>>
    /\ UNCHANGED appVars

\* one iteration of the resynchronisation loop: del b[0]
Resync ==
    /\ pc = "extract"
    /\ OutOfSync(buf)
    /\ buf' = Tail(buf)
    /\ UNCHANGED <<eeg, ext, last_eeg_snapshot, last_ext_snapshot,
                   last_ext_emit_time, unknown_stats, registered, now, calls,
                   decoded, err, input, phase, pc, walk>>
    /\ UNCHANGED appVars

\* the rest of _extract_packet: parse returns on None (or on an exception),
\* and goes on to _parse_payload with a payload
Extract ==
    /\ pc = "extract"
    /\ ~OutOfSync(buf)
    /\ LET r == ExtractAligned(buf)
       IN  /\ buf' = r.buf
           /\ err' = (err \/ r.fault)
           /\ pc' = IF r.ok THEN "walk" ELSE "idle"
           /\ decoded' = IF r.ok THEN Append(decoded, r.payload) ELSE decoded
           /\ walk' = IF r.ok
                      THEN [i |-> 0, eeg_updated |-> FALSE, ext_updated |-> FALSE,
                            running |-> TRUE, payload |-> r.payload]
                      ELSE walk
    /\ UNCHANGED <<eeg, ext, last_eeg_snapshot, last_ext_snapshot,
                   last_ext_emit_time, unknown_stats, registered, now, calls,
                   input, phase>>
    /\ UNCHANGED appVars

\* the locals of _parse_payload together with the decoder
Walker ==
    [d |-> Self, i |-> walk.i, eeg_updated |-> walk.eeg_updated,
     ext_updated |-> walk.ext_updated, running |-> walk.running]

\* one iteration of the while loop of _parse_payload
WalkOne ==
    /\ pc = "walk"
    /\ ~WalkDone(Walker, walk.payload)
    /\ LET w == WalkStep(Walker, walk.payload)
       IN  /\ Become(w.d)
           /\ walk' = [i |-> w.i, eeg_updated |-> w.eeg_updated,
                       ext_updated |-> w.ext_updated, running |-> w.running,
                       payload |-> walk.payload]
    /\ UNCHANGED <<now, input, phase, pc>>

\* the two emit calls, and back to the head of the while True loop
EmitBoth ==
    /\ pc = "walk"
    /\ WalkDone(Walker, walk.payload)
    /\ Become(Emit(Walker, now))
    /\ pc' = "extract"
    /\ walk' = Idle
    /\ UNCHANGED <<now, input, phase>>

Run == Resync \/ Extract \/ WalkOne \/ EmitBoth

NextSteps == (\E data \in StepChunks : Enter(data)) \/ Run

\* a call that has been entered keeps running: the code is sequential
SpecSteps == InitSteps /\ [][NextSteps]_vars /\ WF_vars(Run)

\* an iteration of the while True loop ends the loop or shrinks the buffer
ExtractProgress == (pc = "extract" /\ pc' # "idle") => Len(buf') < Len(buf)

\* an iteration of the payload walk moves on by at least one byte, and never
\* past what the field announces
WalkProgress == (pc = "walk" /\ pc' = "walk") => walk'.i > walk.i

\* C10: parse() ends, and without an exception, on every chunk: each
\* iteration of its extraction loop ends the loop or strictly shrinks the
\* buffer, and each iteration of the payload walk moves on by at least one
\* byte.
C10_ParseTerminates ==
    /\ [](~err)
    /\ [][ExtractProgress /\ WalkProgress]_vars
    /\ (pc # "idle") ~> (pc = "idle")

\* a call has returned after resynchronising, decoding one frame and
\* dropping the first byte of a corrupted one
C10_Witness ==
    /\ pc = "idle"
    /\ phase = 1
    /\ decoded = << <<4, 50>> >>
    /\ buf = Tail(Replace(Frame(<<4, 50>>), 4, 51))
    /\ ~err

(***************************************************************************)
(* The environment of the resynchronisation specification: one chunk of    *)
(* arbitrary earlier input, then parse() calls that each deliver one valid *)
(* frame free of the marker byte, for as long as none of them is decoded   *)
(***************************************************************************)
MaxDeliveries == 10

\* pl repeated n times
RECURSIVE Repeat(_, _)
Repeat(pl, n) == IF n = 0 THEN <<>> ELSE pl \o Repeat(pl, n - 1)

\* the earlier input: stray bytes, stray markers, headers that announce
\* frames which never come, a corrupted frame, a false frame whose checksum
\* holds once the next header is taken for its payload, and a valid frame
Garbage ==
    { <<0>>,
      <<Marker>>,
      <<Marker, Marker, Marker>>,
      <<Marker, Marker, 255>>,
      <<Marker, Marker, 3, 131>>,
      Replace(Frame(<<4, 50>>), 4, 51),
      Replace(Frame(<<4, 50>>), 4, 51) \o <<Marker>>,
      Frame(<<4, 50>>) }

\* no byte after the two markers of frame f is the marker
MarkerFree(f) == \A k \in 3..Len(f) : f[k] # Marker

\* the frames delivered: ten heart-rate fields, and one field of the
\* greatest payload length
Deliveries ==
    {f \in {Frame(Repeat(<<145, 2, 0, 72>>, 10)), Frame([k \in 1..255 |-> 145])} :
        MarkerFree(f)}

InitResync ==
    /\ \E cbs \in {CallbackNames, {}} : Is(NewParser(cbs))
    /\ now = ExtEmitInterval
    /\ input = 0
    /\ phase = 0
    /\ pc = "idle"
    /\ walk = Idle
    /\ AppOff

\* the payloads decoded since the earlier input
Since == SubSeq(decoded, input + 1, Len(decoded))

\* one of the delivered frames has been extracted and decoded
Resynced == \E i \in 1..Len(Since) : Frame(Since[i]) \in Deliveries

\* parser.parse(data) on the earlier input; input keeps the number of
\* payloads decoded out of it
FeedGarbage(data) ==
    /\ phase = 0
    /\ Become(Parse(Self, data, now))
    /\ phase' = 1
    /\ input' = Len(Parse(Self, data, now).decoded)
    /\ UNCHANGED <<now, pc, walk>>

\* parser.parse(data) on one delivered frame
Deliver(data) ==
    /\ Become(Parse(Self, data, now))
    /\ phase' = phase + 1
    /\ UNCHANGED <<now, input, pc, walk>>

Delivering ==
    /\ phase \in 1..MaxDeliveries
    /\ ~Resynced
    /\ \E data \in Deliveries : Deliver(data)

NextResync == (\E data \in Garbage : FeedGarbage(data)) \/ Delivering

\* a delivery has been made: a step of Delivering, said without the decoder
DeliveryMade ==
    /\ phase \in 1..MaxDeliveries
    /\ ~Resynced
    /\ phase' = phase + 1

\* the calls keep coming: while no delivered frame has been decoded, a
\* further frame is delivered
SpecResync == InitResync /\ [][NextResync]_vars /\ WF_phase(DeliveryMade)

\* C11: from the buffer any earlier input has left, parse() calls that keep
\* delivering valid marker-free frames lead to one of those frames being
\* extracted and decoded.
C11_EventuallyResynced == (phase >= 1) ~> Resynced

\* the decoder took a false frame out of the earlier input and the first
\* delivered header, lost that delivered frame, and decoded a later one
C11_Witness ==
    /\ phase >= 3
    /\ input = 0
    /\ Len(decoded) >= 2
    /\ decoded[1] = <<131, Marker, Marker>>
    /\ Resynced

(***************************************************************************)
(* The environment of the buffering specification: chunks as long as a     *)
(* frame of the greatest length, valid, corrupted and made of markers      *)
(***************************************************************************)
MaxFills == 3

\* the frame of the greatest payload length the length byte can announce
LargestPayload == [k \in 1..255 |-> 145]

FillChunks ==
    { Frame(<<4, 50>>),
      Frame(LargestPayload),
      Replace(Frame(<<4, 50>>), 4, 51),
      Replace(Frame(<<4, 50>>), 4, 51) \o Frame(LargestPayload),
      [k \in 1..20 |-> Marker],
      [k \in 1..200 |-> Marker],
      <<0>> }

\* parser.parse(data) on a chunk of the buffering environment
FeedFill(data) ==
    /\ Become(Parse(Self, data, now))
    /\ phase' = phase + 1
    /\ UNCHANGED <<now, input, pc, walk>>

NextBuffering == phase < MaxFills /\ \E data \in FillChunks : FeedFill(data)

SpecBuffering == InitSteps /\ [][NextBuffering]_vars

\* the size of the largest possible frame
LargestFrame == FrameTotal(255)

\* C12: whenever parse() has returned, the buffer holds fewer bytes than
\* the largest possible frame.
C12_BufferBelowFrame == phase > 0 => Len(buf) < LargestFrame

(***************************************************************************)
(* The unknown tracker, over the classifier specification                  *)
(***************************************************************************)
\* the one long field of the last call
LastField == [code |-> input.code, data |-> input.block]

\* the statistics kept for key in the tracker t, zero if there are none
CountIn(t, key) == IF key \in DOMAIN t THEN t[key].count ELSE 0
LensIn(t, key) == IF key \in DOMAIN t THEN t[key].lens ELSE {}

\* the last call has routed its field to the unknown tracker: the count of
\* its code is one more, the length is among the lengths, the block is the
\* last payload, and ExtendedTelemetry holds the same record
Tracked ==
    LET key == Key(input.code)
    IN  /\ key \in DOMAIN unknown_stats
        /\ unknown_stats[key].count = CountIn(input.unknown_stats, key) + 1
        /\ unknown_stats[key].lens = LensIn(input.unknown_stats, key) \cup {Len(input.block)}
        /\ unknown_stats[key].last = Some(Hex(input.block))
        /\ key \in DOMAIN ext.unknown
        /\ ext.unknown[key] = unknown_stats[key]

\* the last call has left the tracker and ExtendedTelemetry as they were
Untracked == unknown_stats = input.unknown_stats /\ ext = input.ext

\* C13 as stated: every long field the decoder interprets as no reading,
\* whatever its code, is routed to the unknown tracker.
C13_EveryUninterpretedTracked ==
    (phase = 2 /\ ClassOf(LastField) \in {"ignored", "unknown"}) => Tracked

\* C13, amended: a long field under a code other than the two reserved
\* ones that the classifier takes for no reading is routed to the unknown
\* tracker; a field under a reserved code whose block has not the reserved
\* length is dropped without a trace.
C13_UnknownRouted ==
    /\ (phase = 2 /\ ~Reserved(input.code) /\ ClassOf(LastField) = "unknown") => Tracked
    /\ (phase = 2 /\ Reserved(input.code) /\ ClassOf(LastField) = "ignored") =>
           (Untracked /\ NewCalls = <<>>)

\* a one-byte block above 100 under a code the tracker already knows: the
\* count of the code went from one to two
C13_Witness ==
    /\ phase = 2
    /\ input.code = 144
    /\ input.block = <<255>>
    /\ CountIn(input.unknown_stats, Key(144)) = 1
    /\ unknown_stats[Key(144)] = [count |-> 2, lens |-> {1}, last |-> Some(Hex(<<255>>))]

(***************************************************************************)
(* The environment of the malformed-field specification: one frame whose   *)
(* last field is a long field that announces more bytes than the payload   *)
(* holds, after no field or after a well-formed one                        *)
(***************************************************************************)
\* the fields before the malformed one: none, attention 50, battery 77
Prefixes == {<<>>, <<4, 50>>, <<146, 1, 77>>}

MalformedCodes == {CodeRaw, CodeBands, 144, 255}

\* the bytes the payload still holds for the block
Remainders ==
    {<<v>> : v \in Byte}
        \cup {<<hi, lo>> : hi \in {0, 1}, lo \in Byte}
        \cup {<<>>, <<0, 1, 255, 255, 128, 0>>, BandsBlock}

\* the lengths a field may announce over a remainder r: one byte more than
\* there is, and the greatest
Declared(r) == {Len(r) + 1, 255}

\* parser.parse(frame) with the frame whose payload ends in the field
\* (code, size, r), size > len(r); the decoder as it was before the call is
\* kept in input
Malformed(prefix, code, size, r) ==
    /\ Become(Parse(Self, Frame(prefix \o <<code, size>> \o r), now))
    /\ input' = [before |-> Self, prefix |-> prefix, code |-> code,
                 size |-> size, block |-> r]
    /\ phase' = 2
    /\ UNCHANGED <<now, pc, walk>>

NextMalformed ==
    \/ Prime
    \/ /\ phase < 2
       /\ \E prefix \in Prefixes, code \in MalformedCodes, r \in Remainders :
              \E size \in Declared(r) : Malformed(prefix, code, size, r)

SpecMalformed == InitSteps /\ [][NextMalformed]_vars

\* the decoder after the frame of the fields before the malformed one
PrefixOnly == Parse(input.before, Frame(input.prefix), now)

\* a telemetry record without the unknown tracker's entries
Readings(e) == [e EXCEPT !.unknown = <<>>]

\* the invocations cs, each with the callback, its arguments and the
\* readings it could see
Seen(cs) ==
    [k \in 1..Len(cs) |-> [cb |-> cs[k].cb, args |-> cs[k].args,
                           eeg |-> cs[k].eeg, ext |-> Readings(cs[k].ext)]]

\* C14: a long field that announces more bytes than the payload holds
\* raises no error and is taken for no reading: the cognitive state, the
\* telemetry attributes and the callback invocations are those of the
\* fields before it.
C14_MalformedForfeited ==
    phase = 2 =>
        /\ ~err
        /\ eeg = PrefixOnly.eeg
        /\ Readings(ext) = Readings(PrefixOnly.ext)
        /\ Seen(calls) = Seen(PrefixOnly.calls)

(***************************************************************************)
(* The environment of the raw-sample specification: one frame made of      *)
(* raw-sample fields only, fed to a fresh decoder or to one whose records  *)
(* are all set, with the throttle interval passed or not                   *)
(***************************************************************************)
MaxSamples == 2

\* the samples of a payload: one to MaxSamples byte pairs
SampleSeqs == Seqs(AxisPairs, MaxSamples) \ {<<>>}

\* the raw-sample field of the byte pair s
RawField(s) == <<CodeRaw, 2>> \o s

\* the payload of the raw-sample fields of ss, in order
RECURSIVE RawPayload(_)
RawPayload(ss) == IF ss = <<>> THEN <<>> ELSE RawField(Head(ss)) \o RawPayload(Tail(ss))

\* parser.parse(frame) with the frame that sets attention and every
\* telemetry attribute
Warm ==
    /\ phase = 0
    /\ Become(Parse(Self, Frame(<<CodeAttention, 50>> \o PrimePayload), now))
    /\ phase' = 1
    /\ UNCHANGED <<now, input, pc, walk>>

\* parser.parse(frame) with the frame of the samples ss; the decoder as it
\* was before the call is kept in input
RawCall(ss) ==
    /\ Become(Parse(Self, Frame(RawPayload(ss)), now))
    /\ input' = [samples |-> ss, before |-> Self, ncalls |-> Len(calls)]
    /\ phase' = 2
    /\ UNCHANGED <<now, pc, walk>>

NextRaw ==
    \/ Warm
    \/ Elapse
    \/ phase < 2 /\ \E ss \in SampleSeqs : RawCall(ss)

SpecRaw == InitClassify /\ [][NextRaw]_vars

\* the raw-sample invocations the samples of the last call are due
RawDue ==
    IF "raw" \in registered
    THEN [k \in 1..Len(input.samples) |->
              <<Signed16(input.samples[k][1], input.samples[k][2])>>]
    ELSE <<>>

\* C15: a payload made only of raw-sample fields hands each signed 16-bit
\* big-endian value to the raw-sample callback once, in order, runs no
\* other callback, and leaves the cognitive state, the telemetry, the
\* unknown tracker and the two gates as they were.
C15_RawSampleOnly ==
    phase = 2 =>
        /\ [k \in 1..Len(NewCalls) |-> NewCalls[k].args] = RawDue
        /\ \A k \in 1..Len(NewCalls) : NewCalls[k].cb = "raw"
        /\ eeg = input.before.eeg
        /\ ext = input.before.ext
        /\ unknown_stats = input.before.unknown_stats
        /\ last_eeg_snapshot = input.before.last_eeg_snapshot
        /\ last_ext_snapshot = input.before.last_ext_snapshot
        /\ last_ext_emit_time = input.before.last_ext_emit_time
        /\ buf = <<>> /\ ~err

\* two samples, -1 and -32768, delivered to the raw-sample callback of a
\* decoder whose records are set and whose throttle interval has passed
C15_Witness ==
    /\ phase = 2
    /\ input.samples = << <<255, 255>>, <<128, 0>> >>
    /\ registered = CallbackNames
    /\ eeg.attention = 50
    /\ ext.heart = Some(72)
    /\ now - last_ext_emit_time >= ExtEmitInterval
    /\ Len(NewCalls) = 2
    /\ NewCalls[1].args = <<-1>>
    /\ NewCalls[2].args = <<-32768>>

(***************************************************************************)
(* The environment of the unknown-tracker specification: a sequence of     *)
(* frames whose long fields go to the tracker, alone or beside a field     *)
(* that is a reading                                                       *)
(***************************************************************************)
MaxUnknownCalls == 3

UnknownPayloads ==
    { <<148, 1, 101>>,                          \* one block under 0x94
      <<148, 1, 101, 149, 2, 0, 0, 148, 0>>,    \* two under 0x94, one under 0x95
      <<149, 3, 1, 2, 3>>,                      \* one block under 0x95
      <<148, 1, 101, 145, 2, 0, 72>>,           \* one under 0x94, then heart 72
      <<145, 2, 0, 73>>,                        \* heart 73
      <<128, 1, 9, 131, 2, 0, 0>>,              \* reserved codes, wrong lengths
      <<CodeAttention, 50>> }

\* parser.parse(frame) with the frame of payload pl
UnknownCall(pl) ==
    /\ phase < MaxUnknownCalls
    /\ Become(Parse(Self, Frame(pl), now))
    /\ phase' = phase + 1
    /\ UNCHANGED <<now, input, pc, walk>>

NextUnknown == Elapse \/ \E pl \in UnknownPayloads : UnknownCall(pl)

SpecUnknown == InitSteps /\ [][NextUnknown]_vars

\* the number of the fields of fs that are routed to unknown under key
RECURSIVE Routed(_, _)
Routed(fs, key) ==
    IF fs = <<>> THEN 0
    ELSE (IF ClassOf(Head(fs)) = "unknown" /\ Key(Head(fs).code) = key THEN 1 ELSE 0)
             + Routed(Tail(fs), key)

\* what one step does to the tracker, given the payloads it decoded
UnknownGrowth ==
    LET new == SubSeq(decoded', Len(decoded) + 1, Len(decoded'))
        fs == Concat([k \in 1..Len(new) |-> FieldsOf(new[k])])
    IN  /\ \A key \in DOMAIN unknown_stats :
               /\ key \in DOMAIN unknown_stats'
               /\ unknown_stats'[key].count >= unknown_stats[key].count
        /\ \A key \in DOMAIN unknown_stats' :
               unknown_stats'[key].count = CountIn(unknown_stats, key) + Routed(fs, key)
        /\ ~AnyClass(fs, {"gyro", "heart", "battery", "temperature"}) =>
               /\ SelectSeq(calls', LAMBDA c : c.cb = "ext") = CallsOf("ext")
               /\ last_ext_snapshot' = last_ext_snapshot
               /\ last_ext_emit_time' = last_ext_emit_time

\* C16: over any sequence of parse() calls no entry of the unknown tracker
\* is removed and no count decreases; a count grows by exactly one per
\* block routed to unknown under its code; and a call whose payloads hold
\* no field that is a telemetry reading runs no extended-telemetry callback.
C16_UnknownCounts == [][UnknownGrowth]_vars

\* four blocks under 0x94 and one under 0x95 counted over three calls, with
\* the extended-telemetry callback registered and never run
C16_Witness ==
    /\ phase = 3
    /\ registered = CallbackNames
    /\ Key(148) \in DOMAIN unknown_stats
    /\ unknown_stats[Key(148)].count = 4
    /\ Key(149) \in DOMAIN unknown_stats
    /\ unknown_stats[Key(149)].count = 1
    /\ CallsOf("ext") = <<>>

(***************************************************************************)
(* brainlink_realtime_plot_music: the main thread, which closes the plot   *)
(* window and stops the music, and the BLE thread, whose notifications run *)
(* the decoder and, through its cognitive-state callback onEEG, start and  *)
(* stop the music player.  A thread takes one step per read or write of    *)
(* the shared _music_proc; the test of stop_music and of start_music is    *)
(* one step.                                                               *)
(***************************************************************************)
MaxNotifications == 3

MED_ON == 70
MED_OFF == 60

\* the notifications: frames with meditation 80, 65 and 50
Notifications == {Frame(<<CodeMeditation, m>>) : m \in {80, 65, 50}}

\* the application is started: the BLE thread is connected and sleeping in
\* its loop, the main thread is in plt.show()
InitMusic ==
    /\ Is(NewParser({"eeg"}))
    /\ now = ExtEmitInterval
    /\ input = <<>>
    /\ phase = 0
    /\ pc = "idle"
    /\ walk = Idle
    /\ stop_event = FALSE
    /\ music_proc = None
    /\ music_lock = FALSE
    /\ players = {}
    /\ spawned = 0
    /\ main_pc = "show"
    /\ main_round = 0
    /\ ble_pc = "loop"
    /\ ble_med = 0
    /\ ble_new = 0

decoderVars ==
    <<buf, eeg, ext, last_eeg_snapshot, last_ext_snapshot, last_ext_emit_time,
      unknown_stats, registered, now, calls, decoded, err, input, phase, pc, walk>>

\* _music_proc and _music_proc.poll() is None
Playing == music_proc # None /\ music_proc[1] \in players

\* where the main thread goes after a stop_music() call
AfterStop == IF main_round = 1 THEN "set" ELSE "exit"

\* the window is closed: on_close is entered
CloseWindow ==
    /\ main_pc = "show"
    /\ main_pc' = "set"
    /\ main_round' = 1
    /\ UNCHANGED <<decoderVars, stop_event, music_proc, music_lock, players,
                   spawned, ble_pc, ble_med, ble_new>>

\* stop_event.set(), in on_close and after plt.show()
MainSet ==
    /\ main_pc = "set"
    /\ stop_event' = TRUE
    /\ main_pc' = "test"
    /\ UNCHANGED <<decoderVars, music_proc, music_lock, players, spawned,
                   main_round, ble_pc, ble_med, ble_new>>

\* stop_music() of the main thread, which does not take the lock: the test
MainTest ==
    /\ main_pc = "test"
    /\ main_pc' = IF Playing THEN "terminate" ELSE AfterStop
    /\ main_round' = IF Playing \/ main_round = 2 THEN main_round ELSE 2
    /\ UNCHANGED <<decoderVars, stop_event, music_proc, music_lock, players,
                   spawned, ble_pc, ble_med, ble_new>>

\* _music_proc.terminate(); with _music_proc None by now the call raises
\* AttributeError and stop_music() is left
MainTerminate ==
    /\ main_pc = "terminate"
    /\ IF music_proc = None
       THEN /\ main_pc' = AfterStop
            /\ main_round' = 2
            /\ players' = players
       ELSE /\ main_pc' = "clear"
            /\ main_round' = main_round
            /\ players' = players \ {music_proc[1]}
    /\ UNCHANGED <<decoderVars, stop_event, music_proc, music_lock, spawned,
                   ble_pc, ble_med, ble_new>>

\* _music_proc = None
MainClear ==
    /\ main_pc = "clear"
    /\ music_proc' = None
    /\ main_pc' = AfterStop
    /\ main_round' = 2
    /\ UNCHANGED <<decoderVars, stop_event, music_lock, players, spawned,
                   ble_pc, ble_med, ble_new>>

\* a notification comes while the BLE thread sleeps in its loop: handle
\* runs parser.parse(data), and the decoder calls onEEG if the cognitive
\* state has changed
Notify(data) ==
    /\ ble_pc = "loop"
    /\ phase < MaxNotifications
    /\ LET d == Parse(Self, data, now)
       IN  /\ Assign(d)
           /\ ble_pc' = IF Len(d.calls) > Len(calls) THEN "acquire" ELSE "loop"
           /\ ble_med' = d.eeg.meditation
    /\ phase' = phase + 1
    /\ UNCHANGED <<now, input, pc, walk, stop_event, music_proc, music_lock,
                   players, spawned, main_pc, main_round, ble_new>>

\* onEEG: with _music_lock, and the choice between start and stop
Acquire ==
    /\ ble_pc = "acquire"
    /\ ~music_lock
    /\ music_lock' = TRUE
    /\ ble_pc' = IF ble_med >= MED_ON THEN "start_test"
                 ELSE IF ble_med <= MED_OFF THEN "stop_test"
                 ELSE "release"
    /\ UNCHANGED <<decoderVars, stop_event, music_proc, players, spawned,
                   main_pc, main_round, ble_med, ble_new>>

\* start_music: _music_proc is None or _music_proc.poll() is not None
StartTest ==
    /\ ble_pc = "start_test"
    /\ ble_pc' = IF Playing THEN "release" ELSE "popen"
    /\ UNCHANGED <<decoderVars, stop_event, music_proc, music_lock, players,
                   spawned, main_pc, main_round, ble_med, ble_new>>

\* subprocess.Popen(["mpg123", ...]): a player process is started
Popen ==
    /\ ble_pc = "popen"
    /\ spawned' = spawned + 1
    /\ players' = players \cup {spawned + 1}
    /\ ble_new' = spawned + 1
    /\ ble_pc' = "assign"
    /\ UNCHANGED <<decoderVars, stop_event, music_proc, music_lock, main_pc,
                   main_round, ble_med>>

\* _music_proc = the new process
StartAssign ==
    /\ ble_pc = "assign"
    /\ music_proc' = Some(ble_new)
    /\ ble_pc' = "release"
    /\ UNCHANGED <<decoderVars, stop_event, music_lock, players, spawned,
                   main_pc, main_round, ble_med, ble_new>>

\* stop_music() of onEEG: the test
StopTest ==
    /\ ble_pc = "stop_test"
    /\ ble_pc' = IF Playing THEN "terminate" ELSE "release"
    /\ UNCHANGED <<decoderVars, stop_event, music_proc, music_lock, players,
                   spawned, main_pc, main_round, ble_med, ble_new>>

\* _music_proc.terminate() of onEEG; with _music_proc None by now the call
\* raises AttributeError and the with block is left
StopTerminate ==
    /\ ble_pc = "terminate"
    /\ IF music_proc = None
       THEN ble_pc' = "release" /\ players' = players
       ELSE ble_pc' = "clear" /\ players' = players \ {music_proc[1]}
    /\ UNCHANGED <<decoderVars, stop_event, music_proc, music_lock, spawned,
                   main_pc, main_round, ble_med, ble_new>>

\* _music_proc = None of onEEG
StopClear ==
    /\ ble_pc = "clear"
    /\ music_proc' = None
    /\ ble_pc' = "release"
    /\ UNCHANGED <<decoderVars, stop_event, music_lock, players, spawned,
                   main_pc, main_round, ble_med, ble_new>>

\* the with block ends and the notification is done
Release ==
    /\ ble_pc = "release"
    /\ music_lock' = FALSE
    /\ ble_pc' = "loop"
    /\ UNCHANGED <<decoderVars, stop_event, music_proc, players, spawned,
                   main_pc, main_round, ble_med, ble_new>>

\* while not stop_event.is_set() ends; client.stop_notify follows and the
\* thread is done
SeeStop ==
    /\ ble_pc = "loop"
    /\ stop_event
    /\ ble_pc' = "done"
    /\ UNCHANGED <<decoderVars, stop_event, music_proc, music_lock, players,
                   spawned, main_pc, main_round, ble_med, ble_new>>

\* a player process ends by itself: the track is over
PlayerExits ==
    /\ \E p \in players : players' = players \ {p}
    /\ UNCHANGED <<decoderVars, stop_event, music_proc, music_lock, spawned,
                   main_pc, main_round, ble_pc, ble_med, ble_new>>

MainThread == CloseWindow \/ MainSet \/ MainTest \/ MainTerminate \/ MainClear

BleThread ==
    \/ \E data \in Notifications : Notify(data)
    \/ Acquire \/ StartTest \/ Popen \/ StartAssign
    \/ StopTest \/ StopTerminate \/ StopClear \/ Release \/ SeeStop

NextMusic == MainThread \/ BleThread \/ PlayerExits

SpecMusic == InitMusic /\ [][NextMusic]_vars

\* C17: once the main thread has run its final stop_event.set() and
\* stop_music(), no player process is running, then or later.
C17_FinalStop == main_pc = "exit" => players = {}
====
